---- MODULE Spec2Model ----
(***************************************************************************)
(* A model of the chess position engine of src/src/chess.rs: the Board     *)
(* struct (8x8 grid, two colour-keyed piece maps, turn, castling flags,    *)
(* en-passant marker, clocks), the FEN codec (load_fen / get_fen), piece   *)
(* placement and move application, move generation with its king-safety    *)
(* filter, and the check / checkmate tests.                                *)
(*                                                                         *)
(* A text is a sequence of one-character strings.  An Option<T> is the     *)
(* empty tuple (None) or a one-element tuple (Some).  A HashMap is a       *)
(* function whose domain is its key set.                                   *)
(***************************************************************************)
EXTENDS Integers, Sequences, FiniteSets, TLC

VARIABLES
    self,      \* the Board the caller owns
    input,     \* the notation text the caller holds (fixed in a behaviour)
    log,       \* the state-changing calls made so far: op, args, pre-state, return
    ret,       \* the last call and what it returned
    panicked   \* None, or Some(message) once the process has died

vars == <<self, input, log, ret, panicked>>

\* ------------------------------------------------------------------ bounds
\* Longest free part of a generated board-layout field.
MaxBody == 3
\* Most load_fen / default calls in one behaviour of the codec.
MaxLoads == 1
\* Most apply_move / place_piece calls in one behaviour.
MaxSteps == 3

\* ------------------------------------------------------- program constants
\* The board is [[Piece; 8]; 8].
BoardSize == 8
\* Largest value of an i8 (row and col counters of load_fen).
I8Max == 127

\* ------------------------------------------------------------ value types
None == <<>>
Some(x) == <<x>>

Coordinate(r, c) == [row |-> r, col |-> c]

Piece(b, c) == [breed |-> b, color |-> c]

\* The sentinel occupant every constructor writes: Empty, coloured White.
EmptyPiece == Piece("Empty", "White")

Idx == 0 .. (BoardSize - 1)

OnBoard(r, c) == r >= 0 /\ r < BoardSize /\ c >= 0 /\ c < BoardSize

Opposite(color) == IF color = "White" THEN "Black" ELSE "White"

\* HashMap::new / insert / remove / contains_key.
EmptyMap == [k \in {} |-> EmptyPiece]
MapInsert(m, k, v) == [x \in (DOMAIN m) \cup {k} |-> IF x = k THEN v ELSE m[x]]
MapRemove(m, k) == [x \in (DOMAIN m) \ {k} |-> m[x]]

\* Coordinate::to_string: file letter, then 8 - row in decimal.
COLS == <<"a", "b", "c", "d", "e", "f", "g", "h">>

Digits == <<"0", "1", "2", "3", "4", "5", "6", "7", "8", "9">>

IsDigit(ch) == \E i \in 1 .. 10 : Digits[i] = ch

ToDigit(ch) == (CHOOSE i \in 1 .. 10 : Digits[i] = ch) - 1

\* i8::to_string / u8::to_string of a number in -128 .. 255.
RECURSIVE NatToString(_)
NatToString(n) ==
    IF n < 10 THEN <<Digits[n + 1]>>
    ELSE NatToString(n \div 10) \o <<Digits[(n % 10) + 1]>>

IntToString(n) == IF n < 0 THEN <<"-">> \o NatToString(0 - n) ELSE NatToString(n)

CoordToString(coord) == <<COLS[coord.col + 1]>> \o IntToString(BoardSize - coord.row)

\* ------------------------------------------------------------------ Board
New ==
    [board |-> [i \in Idx |-> [j \in Idx |-> EmptyPiece]],
     turn |-> "White",
     castling_black_king_side |-> TRUE,
     castling_black_queen_side |-> TRUE,
     castling_white_king_side |-> TRUE,
     castling_white_queen_side |-> TRUE,
     white_pieces |-> EmptyMap,
     black_pieces |-> EmptyMap,
     last_2_moves_pawn |-> None,
     halfmove_clock |-> 0,
     fullmove_number |-> 1]

Clear(b) ==
    [b EXCEPT
        !.board = [i \in Idx |-> [j \in Idx |-> EmptyPiece]],
        !.turn = "White",
        !.castling_black_king_side = FALSE,
        !.castling_black_queen_side = FALSE,
        !.castling_white_king_side = FALSE,
        !.castling_white_queen_side = FALSE,
        !.white_pieces = EmptyMap,
        !.black_pieces = EmptyMap,
        !.last_2_moves_pawn = None,
        !.halfmove_clock = 0,
        !.fullmove_number = 1]

\* What a call that may panic yields: the board as the call left it, and the
\* panic message if it died.
Ok(b) == [b |-> b, panic |-> None]
Panic(b, msg) == [b |-> b, panic |-> Some(msg)]

\* Mutant of place_piece: the bounds check is off by one.
PlacePiece_BoundsOffByOne(b, piece, row, col) ==
    IF row > BoardSize \/ col > BoardSize \/ row < 0 \/ col < 0
    THEN Panic(b, "invalid Coordinates")
    ELSE LET coord == Coordinate(row, col)
             g == IF OnBoard(row, col) THEN [b EXCEPT !.board[row][col] = piece] ELSE b
         IN  IF piece.color = "White"
             THEN Ok([g EXCEPT !.white_pieces = MapInsert(b.white_pieces, coord, piece)])
             ELSE Ok([g EXCEPT !.black_pieces = MapInsert(b.black_pieces, coord, piece)])

\* place_piece: row and col are usize, so a negative i8 cast by the caller
\* arrives as a huge value and fails the bounds check like any other.
PlacePiece(b, piece, row, col) ==
    IF ~OnBoard(row, col) THEN Panic(b, "invalid Coordinates")
    ELSE LET coord == Coordinate(row, col)
             g == [b EXCEPT !.board[row][col] = piece]
         IN  IF piece.color = "White"
             THEN Ok([g EXCEPT !.white_pieces = MapInsert(b.white_pieces, coord, piece)])
             ELSE Ok([g EXCEPT !.black_pieces = MapInsert(b.black_pieces, coord, piece)])

\* ----------------------------------------------------------- notation codec
\* str::split(' '): the fields between single spaces, empty fields included.
Split(s) ==
    LET spaces == {i \in 1 .. Len(s) : s[i] = " "}
        \* Where field k ends: its space, or the end of the text.
        stop(k) == IF k = 0 THEN 0
                   ELSE IF k > Cardinality(spaces) THEN Len(s) + 1
                   ELSE CHOOSE i \in spaces : Cardinality({j \in spaces : j < i}) = k - 1
    IN  [k \in 1 .. Cardinality(spaces) + 1 |-> SubSeq(s, stop(k - 1) + 1, stop(k) - 1)]

\* The match of load_fen: twelve letters, and Empty for anything else.
PieceOfChar(ch) ==
    CASE ch = "K" -> Piece("King", "White")
      [] ch = "Q" -> Piece("Queen", "White")
      [] ch = "R" -> Piece("Rook", "White")
      [] ch = "B" -> Piece("Bishop", "White")
      [] ch = "N" -> Piece("Knight", "White")
      [] ch = "P" -> Piece("Pawn", "White")
      [] ch = "k" -> Piece("King", "Black")
      [] ch = "q" -> Piece("Queen", "Black")
      [] ch = "r" -> Piece("Rook", "Black")
      [] ch = "b" -> Piece("Bishop", "Black")
      [] ch = "n" -> Piece("Knight", "Black")
      [] ch = "p" -> Piece("Pawn", "Black")
      [] OTHER -> Piece("Empty", "White")

\* i8 addition in a build without overflow checks.
Wrap8(x) == ((x + I8Max + 1) % (2 * (I8Max + 1))) - (I8Max + 1)

\* The body of the for loop of load_fen for one character ch, from the
\* board and the row and col counters in st. checks: the build panics on
\* arithmetic overflow (debug) instead of wrapping (release).
LoadFenChar(st, ch, checks) ==
    IF ch = "/" THEN
        IF checks /\ st.row + 1 > I8Max
        THEN [st EXCEPT !.panic = Some("attempt to add with overflow")]
        ELSE [st EXCEPT !.row = Wrap8(st.row + 1), !.col = 0]
    ELSE IF IsDigit(ch) THEN
        IF checks /\ st.col + ToDigit(ch) > I8Max
        THEN [st EXCEPT !.panic = Some("attempt to add with overflow")]
        ELSE [st EXCEPT !.col = Wrap8(st.col + ToDigit(ch))]
    ELSE LET placed == PlacePiece(st.b, PieceOfChar(ch), st.row, st.col) IN
         IF placed.panic # None THEN [st EXCEPT !.b = placed.b, !.panic = placed.panic]
         ELSE IF checks /\ st.col + 1 > I8Max
         THEN [st EXCEPT !.b = placed.b, !.panic = Some("attempt to add with overflow")]
         ELSE [st EXCEPT !.b = placed.b, !.col = Wrap8(st.col + 1)]

\* The for loop of load_fen over characters lo .. hi of the board field, in
\* order; a panic ends it.
RECURSIVE LoadFenLoop(_, _, _, _, _)
LoadFenLoop(st, fen_board, lo, hi, checks) ==
    IF st.panic # None \/ lo > hi THEN st
    ELSE IF lo = hi THEN LoadFenChar(st, fen_board[lo], checks)
    ELSE LoadFenLoop(LoadFenLoop(st, fen_board, lo, (lo + hi) \div 2, checks),
                     fen_board, (lo + hi) \div 2 + 1, hi, checks)

\* load_fen's loop from the start of the board field, on board b.
LoadFenBoard(b, fen_board, checks) ==
    LET st == LoadFenLoop([b |-> b, row |-> 0, col |-> 0, panic |-> None],
                          fen_board, 1, Len(fen_board), checks)
    IN  [b |-> st.b, panic |-> st.panic]

LoadFen(b, fen, checks) ==
    LET fen_array == Split(fen) IN
    IF Len(fen_array) < 6 THEN Panic(b, "called Option::unwrap() on a None value")
    ELSE LET fen_board == fen_array[1]
             fen_turn == fen_array[2]
             cleared == Clear(b)
         IN  IF fen_turn = <<"w">>
             THEN LoadFenBoard([cleared EXCEPT !.turn = "White"], fen_board, checks)
             ELSE IF fen_turn = <<"b">>
             THEN LoadFenBoard([cleared EXCEPT !.turn = "Black"], fen_board, checks)
             ELSE Panic(cleared, "invalid turn")

\* Mutant of the letter choice: the colour test is dropped.
PieceChar_UpperOnly(piece) ==
    CASE piece.breed = "King" -> "K"
      [] piece.breed = "Queen" -> "Q"
      [] piece.breed = "Rook" -> "R"
      [] piece.breed = "Bishop" -> "B"
      [] piece.breed = "Knight" -> "N"
      [] piece.breed = "Pawn" -> "P"

\* The letter get_fen pushes for a non-Empty piece.
PieceChar(piece) ==
    LET white == piece.color = "White" IN
    CASE piece.breed = "King" -> IF white THEN "K" ELSE "k"
      [] piece.breed = "Queen" -> IF white THEN "Q" ELSE "q"
      [] piece.breed = "Rook" -> IF white THEN "R" ELSE "r"
      [] piece.breed = "Bishop" -> IF white THEN "B" ELSE "b"
      [] piece.breed = "Knight" -> IF white THEN "N" ELSE "n"
      [] piece.breed = "Pawn" -> IF white THEN "P" ELSE "p"

\* A pending run of Empty cells, as get_fen pushes it.
Flush(empty_count) == IF empty_count > 0 THEN IntToString(empty_count) ELSE <<>>

\* empty_count when the inner for loop of get_fen reaches cell (i, j): the
\* Empty cells of row i since its last piece before j. Every row starts with
\* empty_count = 0, since the end of a row resets a positive count.
EmptyCount(b, i, j) ==
    Cardinality({k \in 0 .. j - 1 : \A m \in k .. j - 1 : b.board[i][m].breed = "Empty"})

\* The body of the inner for loop of get_fen: what it pushes for cell (i, j).
FenCell(b, i, j) ==
    IF b.board[i][j].breed = "Empty" THEN <<>>
    ELSE Flush(EmptyCount(b, i, j)) \o <<PieceChar(b.board[i][j])>>

\* The inner for loop of get_fen: what it pushes for cells lo .. hi of row i,
\* in order.
RECURSIVE FenRowLoop(_, _, _, _)
FenRowLoop(b, i, lo, hi) ==
    IF lo = hi THEN FenCell(b, i, lo)
    ELSE FenRowLoop(b, i, lo, (lo + hi) \div 2) \o FenRowLoop(b, i, (lo + hi) \div 2 + 1, hi)

\* One turn of the outer for loop of get_fen: what it pushes for row i, the
\* flush at the end of the row and the separator included.
FenRow(b, i) ==
    FenRowLoop(b, i, 0, BoardSize - 1)
    \o (Flush(EmptyCount(b, i, BoardSize)) \o (IF i # BoardSize - 1 THEN <<"/">> ELSE <<>>))

\* The outer for loop of get_fen: what it pushes for rows lo .. hi, in order.
RECURSIVE FenBoardLoop(_, _, _)
FenBoardLoop(b, lo, hi) ==
    IF lo = hi THEN FenRow(b, lo)
    ELSE FenBoardLoop(b, lo, (lo + hi) \div 2) \o FenBoardLoop(b, (lo + hi) \div 2 + 1, hi)

GetFen(b) ==
    FenBoardLoop(b, 0, BoardSize - 1)
    \o (<<" ">> \o (IF b.turn = "White" THEN <<"w">> ELSE <<"b">>)
        \o <<" ">>
        \o (IF b.castling_white_king_side THEN <<"K">> ELSE <<>>)
        \o (IF b.castling_white_queen_side THEN <<"Q">> ELSE <<>>)
        \o (IF b.castling_black_king_side THEN <<"k">> ELSE <<>>)
        \o (IF b.castling_black_queen_side THEN <<"q">> ELSE <<>>)
        \o <<" ">>
        \o (IF b.last_2_moves_pawn = None THEN <<"-">>
            ELSE CoordToString(b.last_2_moves_pawn[1]))
        \o <<" ">> \o IntToString(b.halfmove_clock)
        \o <<" ">> \o IntToString(b.fullmove_number))

\* The text Board::default loads.
StartRanks ==
    <<"r", "n", "b", "q", "k", "b", "n", "r", "/">>
    \o <<"p", "p", "p", "p", "p", "p", "p", "p", "/">>
    \o <<"8", "/", "8", "/", "8", "/", "8", "/">>
    \o <<"P", "P", "P", "P", "P", "P", "P", "P", "/">>
    \o <<"R", "N", "B", "Q", "K", "B", "N", "R">>

StartFen ==
    StartRanks \o <<" ", "w", " ", "K", "Q", "k", "q", " ", "-", " ", "0", " ", "1">>

\* Board::default: a new board, then load_fen of the starting text.
Default == LoadFen(New, StartFen, FALSE).b

\* ------------------------------------------------------------ move application
\* Mutant of apply_move: the mover's entry at the starting square is kept.
ApplyMove_KeepsStartEntry(b, starting, ending) ==
    IF ~OnBoard(starting.row, starting.col) \/ ~OnBoard(ending.row, ending.col)
    THEN [b |-> b, panic |-> Some("index out of bounds"), captured |-> None]
    ELSE
    LET piece == b.board[starting.row][starting.col]
        captured_piece == b.board[ending.row][ending.col]
        g1 == [b.board EXCEPT ![starting.row][starting.col] = EmptyPiece]
        g2 == [g1 EXCEPT ![ending.row][ending.col] = piece]
        diff == ending.row - starting.row
        marker == IF piece.breed = "Pawn" /\ (diff = 2 \/ diff = -2)
                  THEN Some(ending) ELSE b.last_2_moves_pawn
        white == IF piece.color = "White"
                 THEN MapInsert(b.white_pieces, ending, piece)
                 ELSE IF captured_piece.breed # "Empty"
                      THEN MapRemove(b.white_pieces, ending) ELSE b.white_pieces
        black == IF piece.color = "White"
                 THEN IF captured_piece.breed # "Empty"
                      THEN MapRemove(b.black_pieces, ending) ELSE b.black_pieces
                 ELSE MapInsert(b.black_pieces, ending, piece)
    IN  [b |-> [b EXCEPT !.board = g2,
                         !.last_2_moves_pawn = marker,
                         !.white_pieces = white,
                         !.black_pieces = black,
                         !.turn = Opposite(b.turn)],
         panic |-> None,
         captured |-> IF captured_piece.breed # "Empty"
                      THEN Some(captured_piece) ELSE None]

\* Mutant of apply_move: the starting cell of the grid is not cleared.
ApplyMove_KeepsStartCell(b, starting, ending) ==
    IF ~OnBoard(starting.row, starting.col) \/ ~OnBoard(ending.row, ending.col)
    THEN [b |-> b, panic |-> Some("index out of bounds"), captured |-> None]
    ELSE
    LET piece == b.board[starting.row][starting.col]
        captured_piece == b.board[ending.row][ending.col]
        g2 == [b.board EXCEPT ![ending.row][ending.col] = piece]
        diff == ending.row - starting.row
        marker == IF piece.breed = "Pawn" /\ (diff = 2 \/ diff = -2)
                  THEN Some(ending) ELSE b.last_2_moves_pawn
        white == IF piece.color = "White"
                 THEN MapRemove(MapInsert(b.white_pieces, ending, piece), starting)
                 ELSE IF captured_piece.breed # "Empty"
                      THEN MapRemove(b.white_pieces, ending) ELSE b.white_pieces
        black == IF piece.color = "White"
                 THEN IF captured_piece.breed # "Empty"
                      THEN MapRemove(b.black_pieces, ending) ELSE b.black_pieces
                 ELSE MapRemove(MapInsert(b.black_pieces, ending, piece), starting)
    IN  [b |-> [b EXCEPT !.board = g2,
                         !.last_2_moves_pawn = marker,
                         !.white_pieces = white,
                         !.black_pieces = black,
                         !.turn = Opposite(b.turn)],
         panic |-> None,
         captured |-> IF captured_piece.breed # "Empty"
                      THEN Some(captured_piece) ELSE None]

\* apply_move: the board after the call, the captured piece it returns, and
\* the panic of an out-of-range array index (both cells are read first).
\* apply_move that forgets the marker on every move but a pawn's double step.
ApplyMove_ClearsMarker(b, starting, ending) ==
    IF ~OnBoard(starting.row, starting.col) \/ ~OnBoard(ending.row, ending.col)
    THEN [b |-> b, panic |-> Some("index out of bounds"), captured |-> None]
    ELSE
    LET piece == b.board[starting.row][starting.col]
        captured_piece == b.board[ending.row][ending.col]
        g1 == [b.board EXCEPT ![starting.row][starting.col] = EmptyPiece]
        g2 == [g1 EXCEPT ![ending.row][ending.col] = piece]
        diff == ending.row - starting.row
        marker == IF piece.breed = "Pawn" /\ (diff = 2 \/ diff = -2)
                  THEN Some(ending) ELSE None
        white == IF piece.color = "White"
                 THEN MapRemove(MapInsert(b.white_pieces, ending, piece), starting)
                 ELSE IF captured_piece.breed # "Empty"
                      THEN MapRemove(b.white_pieces, ending) ELSE b.white_pieces
        black == IF piece.color = "White"
                 THEN IF captured_piece.breed # "Empty"
                      THEN MapRemove(b.black_pieces, ending) ELSE b.black_pieces
                 ELSE MapRemove(MapInsert(b.black_pieces, ending, piece), starting)
    IN  [b |-> [b EXCEPT !.board = g2,
                         !.last_2_moves_pawn = marker,
                         !.white_pieces = white,
                         !.black_pieces = black,
                         !.turn = Opposite(b.turn)],
         panic |-> None,
         captured |-> IF captured_piece.breed # "Empty"
                      THEN Some(captured_piece) ELSE None]

ApplyMove(b, starting, ending) ==
    IF ~OnBoard(starting.row, starting.col) \/ ~OnBoard(ending.row, ending.col)
    THEN [b |-> b, panic |-> Some("index out of bounds"), captured |-> None]
    ELSE
    LET piece == b.board[starting.row][starting.col]
        captured_piece == b.board[ending.row][ending.col]
        g1 == [b.board EXCEPT ![starting.row][starting.col] = EmptyPiece]
        g2 == [g1 EXCEPT ![ending.row][ending.col] = piece]
        diff == ending.row - starting.row
        marker == IF piece.breed = "Pawn" /\ (diff = 2 \/ diff = -2)
                  THEN Some(ending) ELSE b.last_2_moves_pawn
        white == IF piece.color = "White"
                 THEN MapRemove(MapInsert(b.white_pieces, ending, piece), starting)
                 ELSE IF captured_piece.breed # "Empty"
                      THEN MapRemove(b.white_pieces, ending) ELSE b.white_pieces
        black == IF piece.color = "White"
                 THEN IF captured_piece.breed # "Empty"
                      THEN MapRemove(b.black_pieces, ending) ELSE b.black_pieces
                 ELSE MapRemove(MapInsert(b.black_pieces, ending, piece), starting)
    IN  [b |-> [b EXCEPT !.board = g2,
                         !.last_2_moves_pawn = marker,
                         !.white_pieces = white,
                         !.black_pieces = black,
                         !.turn = Opposite(b.turn)],
         panic |-> None,
         captured |-> IF captured_piece.breed # "Empty"
                      THEN Some(captured_piece) ELSE None]

\* ---------------------------------------------------------- move generation
\* The four flags and steps of diagonal_moves (left up, left down, right up,
\* right down) and of linear_moves (up, down, left, right), in source order.
DiagonalDirs == <<<<1, -1>>, <<-1, -1>>, <<1, 1>>, <<-1, 1>>>>
LinearDirs == <<<<1, 0>>, <<-1, 0>>, <<0, -1>>, <<0, 1>>>>

\* The square direction k of dirs reaches at step delta.
RaySquare(row, col, dirs, delta, k) ==
    Coordinate(row + dirs[k][1] * delta, col + dirs[k][2] * delta)

\* Direction k's flag when the loop `for delta in 1..8` of diagonal_moves /
\* linear_moves reaches step delta: a block clears its flag at a square off
\* the board or not Empty, so the flag is still set when every earlier
\* square of the direction was on the board and Empty. open[k] is the flag
\* before the loop.
RayOpen(b, row, col, dirs, delta, k, open) ==
    /\ open[k]
    /\ \A d \in 1 .. delta - 1 :
         /\ OnBoard(RaySquare(row, col, dirs, d, k).row, RaySquare(row, col, dirs, d, k).col)
         /\ b.board[RaySquare(row, col, dirs, d, k).row]
                    [RaySquare(row, col, dirs, d, k).col].breed = "Empty"

\* Whether the block of direction k pushes its square at step delta: the flag
\* is set, the square is on the board, and it is Empty or holds a piece of
\* the other colour.
RayPushes(b, row, col, color, dirs, delta, k, open) ==
    /\ RayOpen(b, row, col, dirs, delta, k, open)
    /\ OnBoard(RaySquare(row, col, dirs, delta, k).row, RaySquare(row, col, dirs, delta, k).col)
    /\ LET piece == b.board[RaySquare(row, col, dirs, delta, k).row]
                            [RaySquare(row, col, dirs, delta, k).col]
       IN  piece.breed = "Empty" \/ piece.color # color

\* The loop `for delta in 1..8` of diagonal_moves / linear_moves: the four
\* blocks in source order at each step, and what they push.
RayLoop(b, row, col, color, dirs, open) ==
    LET blocks == [n \in 1 .. (BoardSize - 1) * 4 |-> [delta |-> ((n - 1) \div 4) + 1,
                                                      k |-> ((n - 1) % 4) + 1]]
        pushing == SelectSeq(blocks, LAMBDA t :
                       RayPushes(b, row, col, color, dirs, t.delta, t.k, open))
    IN  [n \in 1 .. Len(pushing) |->
            RaySquare(row, col, dirs, pushing[n].delta, pushing[n].k)]

\* diagonal_moves whose left-down ray is never walked.
DiagonalMoves_SkipsLeftDown(b, row, col, color) ==
    RayLoop(b, row, col, color, DiagonalDirs, <<TRUE, FALSE, TRUE, TRUE>>)

DiagonalMoves(b, row, col, color) ==
    RayLoop(b, row, col, color, DiagonalDirs, <<TRUE, TRUE, TRUE, TRUE>>)

LinearMoves(b, row, col, color) ==
    RayLoop(b, row, col, color, LinearDirs, <<TRUE, TRUE, TRUE, TRUE>>)

KingMoves(row, col) ==
    <<Coordinate(row - 1, col + 1), Coordinate(row, col + 1), Coordinate(row + 1, col + 1),
      Coordinate(row - 1, col), Coordinate(row + 1, col),
      Coordinate(row - 1, col - 1), Coordinate(row, col - 1), Coordinate(row + 1, col - 1)>>

KnightMoves(row, col) ==
    <<Coordinate(row - 2, col - 1), Coordinate(row - 2, col + 1),
      Coordinate(row - 1, col - 2), Coordinate(row - 1, col + 2),
      Coordinate(row + 1, col - 2), Coordinate(row + 1, col + 2),
      Coordinate(row + 2, col - 1), Coordinate(row + 2, col + 1)>>

\* The "2 space" block without the test of the square immediately ahead.
PawnTwoSpace_JumpsOver(b, row, col, color) ==
    LET dir == IF color = "White" THEN -1 ELSE 1
        home == IF color = "White" THEN 6 ELSE 1
    IN  IF row = home
        THEN (IF b.board[row + dir][col].breed = "Empty"
              THEN <<Coordinate(row + dir, col)>> ELSE <<>>)
             \o (IF b.board[row + 2 * dir][col].breed = "Empty"
                 THEN <<Coordinate(row + 2 * dir, col)>> ELSE <<>>)
        ELSE <<>>

\* The pawn's "2 space" block: from the starting rank, one step if the square
\* ahead is Empty and then two if the next one is Empty too.
PawnTwoSpace(b, row, col, color) ==
    LET dir == IF color = "White" THEN -1 ELSE 1
        home == IF color = "White" THEN 6 ELSE 1
    IN  IF row = home
        THEN IF b.board[row + dir][col].breed = "Empty"
             THEN <<Coordinate(row + dir, col)>>
                  \o (IF b.board[row + 2 * dir][col].breed = "Empty"
                      THEN <<Coordinate(row + 2 * dir, col)>> ELSE <<>>)
             ELSE <<>>
        ELSE <<>>

\* The pawn's "1 space" block.
PawnOneSpace(b, row, col, color) ==
    LET dir == IF color = "White" THEN -1 ELSE 1
        inside == IF color = "White" THEN row > 0 ELSE row < 7
    IN  IF inside /\ b.board[row + dir][col].breed = "Empty"
        THEN <<Coordinate(row + dir, col)>> ELSE <<>>

\* One diagonal capture of the pawn, towards column col + side.
PawnDiag(b, row, col, color, side) ==
    LET dir == IF color = "White" THEN -1 ELSE 1
        inside == /\ IF color = "White" THEN row >= 1 ELSE row < 7
                  /\ IF side < 0 THEN col >= 1 ELSE col < 7
    IN  IF inside
        THEN LET diag_piece == b.board[row + dir][col + side] IN
             IF diag_piece.breed # "Empty" /\ diag_piece.color # color
             THEN <<Coordinate(row + dir, col + side)>> ELSE <<>>
        ELSE <<>>

\* The en-passant block without the test of the neighbour's breed and colour.
PawnEnPassant_AnyOccupant(b, row, col, color, side) ==
    LET beside == col + side
        new_row == IF color = "White" THEN row - 1 ELSE row + 1
    IN  IF b.last_2_moves_pawn # None /\ beside >= 0 /\ beside < 8
        THEN IF b.last_2_moves_pawn[1] = Coordinate(row, beside)
             THEN <<Coordinate(new_row, beside)>> ELSE <<>>
        ELSE <<>>

\* One side of the en-passant block, for the neighbour in column col + side.
PawnEnPassant(b, row, col, color, side) ==
    LET beside == col + side
        new_row == IF color = "White" THEN row - 1 ELSE row + 1
    IN  IF b.last_2_moves_pawn # None /\ beside >= 0 /\ beside < 8
        THEN LET side_piece == b.board[row][beside] IN
             IF /\ b.last_2_moves_pawn[1] = Coordinate(row, beside)
                /\ side_piece.breed = "Pawn" /\ side_piece.color # color
             THEN <<Coordinate(new_row, beside)>> ELSE <<>>
        ELSE <<>>

PawnMoves(b, row, col, color) ==
    PawnTwoSpace(b, row, col, color) \o PawnOneSpace(b, row, col, color)
    \o PawnDiag(b, row, col, color, -1) \o PawnDiag(b, row, col, color, 1)
    \o PawnEnPassant(b, row, col, color, -1) \o PawnEnPassant(b, row, col, color, 1)

\* The match of get_moves on the breed of the piece at (row, col).
RawMoves(b, row, col) ==
    LET piece == b.board[row][col] IN
    CASE piece.breed = "King" -> KingMoves(row, col)
      [] piece.breed = "Queen" ->
            DiagonalMoves(b, row, col, piece.color) \o LinearMoves(b, row, col, piece.color)
      [] piece.breed = "Rook" -> LinearMoves(b, row, col, piece.color)
      [] piece.breed = "Bishop" -> DiagonalMoves(b, row, col, piece.color)
      [] piece.breed = "Knight" -> KnightMoves(row, col)
      [] piece.breed = "Pawn" -> PawnMoves(b, row, col, piece.color)
      [] OTHER -> <<>>

Contains(seq, x) == \E i \in 1 .. Len(seq) : seq[i] = x

\* The fold that drops later duplicates: a coordinate is pushed when acc does
\* not hold it yet, that is at its first place in seq.
Dedup(seq) ==
    LET first == {i \in 1 .. Len(seq) : \A j \in 1 .. i - 1 : seq[j] # seq[i]}
    IN  [n \in 1 .. Cardinality(first) |->
            seq[CHOOSE i \in first : Cardinality({j \in first : j < i}) = n - 1]]

\* The three filters get_moves applies before the king-safety filter.
Candidates(b, row, col) ==
    LET piece == b.board[row][col]
        inside == SelectSeq(RawMoves(b, row, col),
                            LAMBDA coord : OnBoard(coord.row, coord.col))
        free == SelectSeq(inside,
                          LAMBDA coord : \/ b.board[coord.row][coord.col].breed = "Empty"
                                         \/ b.board[coord.row][coord.col].color # piece.color)
    IN  Dedup(free)

\* --------------------------------------------- king safety, check, checkmate
\* get_moves always ends in filter_check_moves, which calls is_in_check for
\* every candidate, which calls get_moves for every piece of the other
\* colour: nothing bounds the nesting, and a call either returns a value or
\* exhausts the stack (ov). Each operator ending in Out yields the set of
\* outcomes the call can have: the iteration order of a HashMap is
\* unspecified, and a call that meets the attacker before the piece whose
\* get_moves overflows returns.
\* An outcome without a value carries in val a blank of the type the call
\* returns (no moves, FALSE), which nothing reads.
Returns(v) == [ov |-> FALSE, val |-> v]
Overflows(blank) == [ov |-> TRUE, val |-> blank]

\* The scratch board of filter_check_moves.
CloneBoard(b) == LoadFen(New, GetFen(b), FALSE).b

PiecesOf(b, color) == IF color = "White" THEN b.white_pieces ELSE b.black_pieces

\* get_king_coord: a King entry of the colour's map, whichever the
\* iteration meets first.
KingCoords(b, color) ==
    {sq \in DOMAIN PiecesOf(b, color) : PiecesOf(b, color)[sq].breed = "King"}

\* The scratch board at the end of a turn of the loop of filter_check_moves:
\* moved is what apply_move made of it for the candidate move_coord; the
\* move is undone, and what it captured is put back.
Undone(moved, piece_coord, move_coord) ==
    LET back == ApplyMove(moved.b, move_coord, piece_coord)
    IN  IF moved.captured # None
        THEN PlacePiece(back.b, moved.captured[1], move_coord.row, move_coord.col).b
        ELSE back.b

\* A call board.is_in_check(color), by what it and the calls under it read
\* of the board: the cells of the grid that are not the Empty piece of
\* Board::new, the two maps and the en-passant marker. The turn, the
\* castling flags and the clocks are written (apply_move, get_fen, load_fen)
\* and never read by a query, so that two calls that differ in them alone
\* run alike.
IsInCheckCall(b, color) ==
    [cells |-> [sq \in {sq \in {Coordinate(i, j) : i \in Idx, j \in Idx} :
                          b.board[sq.row][sq.col] # EmptyPiece} |-> b.board[sq.row][sq.col]],
     white_pieces |-> b.white_pieces,
     black_pieces |-> b.black_pieces,
     last_2_moves_pawn |-> b.last_2_moves_pawn,
     color |-> color]

\* A board the call is made on.
BoardOf(call) ==
    [Clear(New) EXCEPT
        !.board = [i \in Idx |-> [j \in Idx |->
                      IF Coordinate(i, j) \in DOMAIN call.cells
                      THEN call.cells[Coordinate(i, j)] ELSE EmptyPiece]],
        !.white_pieces = call.white_pieces,
        !.black_pieces = call.black_pieces,
        !.last_2_moves_pawn = call.last_2_moves_pawn]

\* One turn of the loop of filter_check_moves: the move is simulated on the
\* scratch board, is_in_check is called on it, and the move is undone.
FilterTurn(st, color, piece_coord, move_coord) ==
    LET moved == ApplyMove(st.b, piece_coord, move_coord)
    IN  [b |-> Undone(moved, piece_coord, move_coord),
         tests |-> Append(st.tests, IsInCheckCall(moved.b, color))]

\* The loop after n more turns, or as many as candidates are left: the
\* turn to come is the one after the tests made.
RECURSIVE FilterTurns(_, _, _, _, _)
FilterTurns(st, color, piece_coord, moves, n) ==
    IF n = 0 \/ Len(st.tests) = Len(moves) THEN st
    ELSE IF n = 1 THEN FilterTurn(st, color, piece_coord, moves[Len(st.tests) + 1])
    ELSE FilterTurns(FilterTurns(st, color, piece_coord, moves, n \div 2),
                     color, piece_coord, moves, n - n \div 2)

\* filter_check_moves, as the candidates and the is_in_check call the loop
\* makes for each: tests[i] is the call that decides whether moves[i] is
\* kept. Whether the loop gets as far as a candidate is up to the calls
\* before it.
FilterCheckMovesCall(b, piece_coord, moves) ==
    [moves |-> moves,
     tests |-> IF moves = <<>> THEN <<>>
               ELSE FilterTurns([b |-> CloneBoard(b), tests |-> <<>>],
                                b.board[piece_coord.row][piece_coord.col].color,
                                piece_coord, moves, Len(moves)).tests]

\* get_moves: the candidates, handed to filter_check_moves.
GetMovesCall(b, row, col) ==
    FilterCheckMovesCall(b, Coordinate(row, col), Candidates(b, row, col))

\* The get_moves calls of a loop over the pieces of a colour.
GetMovesCalls(b, color) ==
    {GetMovesCall(b, sq.row, sq.col) : sq \in DOMAIN PiecesOf(b, color)}

\* The is_in_check calls a filter_check_moves call makes.
TestsOf(get) == {get.tests[i] : i \in 1 .. Len(get.tests)}
\* The is_in_check calls made under the get_moves calls gets.
TestsUnder(gets) == UNION {TestsOf(get) : get \in gets}

\* The body of is_in_check: the kings the call may look for, and the
\* get_moves call of every piece of the other colour. Without a king the
\* call returns before the loop.
IsInCheckBody(b, color) ==
    [kings |-> KingCoords(b, color),
     gets |-> IF KingCoords(b, color) = {} THEN {}
              ELSE GetMovesCalls(b, Opposite(color))]

\* A followed is_in_check call: the call, its body, and the is_in_check
\* calls made under it.
FollowedBody(call, body) ==
    [call |-> call, kings |-> body.kings, gets |-> body.gets,
     under |-> TestsUnder(body.gets)]
\* The call is run on the board it is made on.
Followed(call) == FollowedBody(call, IsInCheckBody(BoardOf(call), call.color))

\* What is_in_check calls can return is kept as two sets of calls: those
\* that can return true (yes) and those that can return false (no).
Values(can, call) == {v \in BOOLEAN : IF v THEN call \in can.yes ELSE call \in can.no}

\* Given what the is_in_check calls can return (can), what the get_moves
\* call get can return: anything at all, a list that holds king_coord, a
\* list that does not, a list that is not empty, the empty list. It returns
\* when every test returns; a candidate is kept when its test returns false.
CanReturn(can, get) ==
    \A i \in 1 .. Len(get.tests) : get.tests[i] \in can.yes \/ get.tests[i] \in can.no
CanReturnWith(can, get, king_coord) ==
    /\ CanReturn(can, get)
    /\ \E i \in 1 .. Len(get.moves) : get.moves[i] = king_coord /\ get.tests[i] \in can.no
CanReturnWithout(can, get, king_coord) ==
    /\ CanReturn(can, get)
    /\ \A i \in 1 .. Len(get.moves) : get.moves[i] = king_coord => get.tests[i] \in can.yes
CanReturnSome(can, get) ==
    /\ CanReturn(can, get)
    /\ \E i \in 1 .. Len(get.tests) : get.tests[i] \in can.no
CanReturnNone(can, get) == \A i \in 1 .. Len(get.tests) : get.tests[i] \in can.yes

\* The values is_in_check can return, given the same of the calls under
\* it: false without a king; true when the loop can meet first a piece
\* whose list holds the king; false when every list can come back without
\* it.
IsInCheckValues(can, body) ==
    IF body.kings = {} THEN {FALSE}
    ELSE {v \in BOOLEAN :
            \E king_coord \in body.kings :
                IF v THEN \E get \in body.gets : CanReturnWith(can, get, king_coord)
                ELSE \A get \in body.gets : CanReturnWithout(can, get, king_coord)}

\* The values the loop of is_in_checkmate can return: false when it can
\* meet first a piece with a move, true when every list can come back
\* empty.
IsInCheckmateValues(can, gets) ==
    {v \in BOOLEAN : IF v THEN \A get \in gets : CanReturnNone(can, get)
                     ELSE \E get \in gets : CanReturnSome(can, get)}

\* The values the followed calls can return: those they return by finitely
\* many calls, reached by rounds from can, which holds values they are known
\* to return and what the calls not followed are taken to return.
RECURSIVE ReturnValues(_, _)
ReturnValues(followed, can) ==
    LET vals == {[call |-> f.call, vals |-> IsInCheckValues(can, f)] : f \in followed}
        next == [yes |-> can.yes \cup {v.call : v \in {v \in vals : TRUE \in v.vals}},
                 no |-> can.no \cup {v.call : v \in {v \in vals : FALSE \in v.vals}}]
    IN  IF next = can THEN can ELSE ReturnValues(followed, next)

\* The calls of the set that can nest without end inside the set: what is
\* left when the calls that make no call of the set are taken out, again
\* and again.
RECURSIVE Endless(_, _)
Endless(followed, calls) ==
    LET next == {f.call : f \in {f \in followed :
                                   f.call \in calls /\ \E call \in f.under : call \in calls}}
    IN  IF next = calls THEN calls ELSE Endless(followed, next)

\* What is known of the calls under a query when the calls of followed have
\* been followed and those of open have not:
\*   has      the values the calls return whatever the open calls do
\*            (had holds values already known),
\*   may      the values the calls return if the open calls return at will,
\*   endless  the followed calls that can nest for ever.
\* A call nests for ever when it can make a call that does: the loop of
\* is_in_check can meet any piece first, and the loop of filter_check_moves
\* reaches a candidate unless a test before it never returns, which then
\* nests for ever itself.
KnownWith(followed, open, has) ==
    [followed |-> followed,
     open |-> open,
     has |-> has,
     may |-> ReturnValues(followed, [yes |-> has.yes \cup open, no |-> has.no \cup open]),
     endless |-> Endless(followed, {f.call : f \in followed})]
\* has is reached from the values already known.
Known(followed, open, had) == KnownWith(followed, open, ReturnValues(followed, had))

\* A query: the get_moves calls it makes, and what it does with the lists:
\* get_moves hands back the list of its one call, is_in_check looks for a
\* king in each, is_in_checkmate for a move.
GetMovesQuery(get) == [op |-> "get_moves", gets |-> {get}, kings |-> {}]
IsInCheckQuery(body) == [op |-> "is_in_check", gets |-> body.gets, kings |-> body.kings]
IsInCheckmateQuery(gets) == [op |-> "is_in_checkmate", gets |-> gets, kings |-> {}]

\* Nothing the open calls do changes what the query returns.
SameReturns(known, query) ==
    CASE query.op = "is_in_check" ->
             IsInCheckValues(known.has, query) = IsInCheckValues(known.may, query)
      [] query.op = "is_in_checkmate" ->
             IsInCheckmateValues(known.has, query.gets)
                 = IsInCheckmateValues(known.may, query.gets)
      [] OTHER ->
             \A get \in query.gets :
                 \/ ~CanReturn(known.may, get)
                 \/ \A call \in TestsOf(get) :
                        Values(known.has, call) = Values(known.may, call)

\* The query can exhaust the stack: it makes a call that nests for ever.
CanOverflow(known, query) == \E call \in TestsUnder(query.gets) : call \in known.endless

\* The outcomes of the query are all known. With no call left open, has and
\* may are the same.
Settled(known, query) ==
    /\ known.open = {} \/ CanOverflow(known, query)
    /\ SameReturns(known, query)

\* The calls under the query, followed one level of is_in_check at a time
\* until its outcomes are settled. Every level follows calls not followed
\* before, and the boards a position leads to by moves of its pieces are
\* finitely many.
\* One more level: new are the open calls, followed; the calls they make
\* that were not followed yet are left open.
FollowOpen(known, new) ==
    Known(known.followed \cup new,
          (UNION {f.under : f \in new}) \ ({f.call : f \in known.followed} \cup known.open),
          known.has)
RECURSIVE Follow(_, _)
Follow(known, query) ==
    IF Settled(known, query) THEN known
    ELSE Follow(FollowOpen(known, {Followed(call) : call \in known.open}), query)

\* What is known of the calls under the query.
Under(query) ==
    Follow(Known({}, TestsUnder(query.gets), [yes |-> {}, no |-> {}]), query)

\* The lists filter_check_moves can return for candidates lo .. hi.
RECURSIVE KeptLists(_, _, _, _)
KeptLists(can, get, lo, hi) ==
    IF lo > hi THEN {<<>>}
    ELSE IF lo = hi
    THEN {IF v THEN <<>> ELSE <<get.moves[lo]>> : v \in Values(can, get.tests[lo])}
    ELSE {l \o r : l \in KeptLists(can, get, lo, (lo + hi) \div 2),
                   r \in KeptLists(can, get, (lo + hi) \div 2 + 1, hi)}

\* The values the query can return, given what the calls under it can.
ReturnedValues(can, query) ==
    CASE query.op = "is_in_check" -> IsInCheckValues(can, query)
      [] query.op = "is_in_checkmate" -> IsInCheckmateValues(can, query.gets)
      [] OTHER -> UNION {KeptLists(can, get, 1, Len(get.moves)) : get \in query.gets}

\* The outcomes of a query, by what is known of the calls under it.
QueryOut(known, query, blank) ==
    {Returns(v) : v \in ReturnedValues(known.has, query)}
    \cup (IF CanOverflow(known, query) THEN {Overflows(blank)} ELSE {})

\* The outcomes of a query.
Out(query, blank) == QueryOut(Under(query), query, blank)

FilterCheckMovesOut(b, piece_coord, moves) ==
    Out(GetMovesQuery(FilterCheckMovesCall(b, piece_coord, moves)), <<>>)

GetMovesOut(b, row, col) ==
    FilterCheckMovesOut(b, Coordinate(row, col), Candidates(b, row, col))

IsInCheckOut(b, color) == Out(IsInCheckQuery(IsInCheckBody(b, color)), FALSE)

IsInCheckmateOut(b, color) ==
    IF KingCoords(b, color) = {} THEN {Returns(FALSE)}
    ELSE Out(IsInCheckmateQuery(GetMovesCalls(b, color)), FALSE)


\* ------------------------------------------------------------------ inputs
Concat(s, t) == s \o t

RECURSIVE Texts(_, _)
\* Every text over the alphabet of at most n characters.
Texts(alphabet, n) ==
    IF n = 0 THEN {<<>>}
    ELSE LET shorter == Texts(alphabet, n - 1)
         IN  shorter \cup {Append(t, ch) : t \in shorter, ch \in alphabet}

\* Characters of a generated board field: two piece letters, an unrecognized
\* character, the digits 1 and 8, and the rank separator.
BodyChars == {"p", "K", "x", "1", "8", "/"}

SevenRanks == <<"/", "/", "/", "/", "/", "/", "/">>

FenTail == <<" ", "-", " ", "-", " ", "0", " ", "1">>

\* Board fields: a free body on the first rank or after seven separators,
\* and fields with the digits 0 and 9.
BoardFields ==
    {Concat(pre, body) : pre \in {<<>>, SevenRanks}, body \in Texts(BodyChars, MaxBody)}
    \cup {<<"0">>, <<"9">>, <<"0", "p">>, <<"9", "p">>, <<"p", "0", "K">>,
          <<"p", "9">>, <<"8", "0", "p">>, <<"7", "0", "K">>, <<"9", "/", "0", "p">>,
          <<"0", "9", "x">>, <<"4", "4", "/", "K">>, <<"4", "4", "K">>}

\* Notation texts given to the codec: six fields with a valid turn letter,
\* and a few with an invalid turn token or too few fields.
CodecInputs ==
    {f \o <<" ", "w">> \o FenTail : f \in BoardFields}
    \cup {f \o <<" ", "b">> \o FenTail : f \in Texts(BodyChars, MaxBody)}
    \cup {StartFen,
          <<"8", " ", "x">> \o FenTail,
          <<"9", "p", " ", "W">> \o FenTail,
          <<"8", " ", "w", "b">> \o FenTail,
          <<"8", " ", "w", " ", "-">>}

\* Positions the move specification starts from, and the squares and pieces
\* its calls draw their arguments from.
MoveInputs ==
    {<<"p", "/", "1", "x", "/", "N", " ", "w">> \o FenTail,
     <<"p", "/", "/", "N", " ", "w">> \o FenTail,
     <<"N", "/", "1", "q", "/", "P", " ", "b">> \o FenTail}

MoveSquares == {Coordinate(0, 0), Coordinate(1, 1), Coordinate(2, 0)}

PlacePieces == {Piece("Pawn", "Black"), Piece("Knight", "White")}

PlaceSquares == {Coordinate(0, 0), Coordinate(2, 0), Coordinate(BoardSize, 0)}

\* A position text from the texts of its eight ranks, White to move.
RECURSIVE JoinRanks(_, _)
JoinRanks(ranks, i) ==
    IF i > Len(ranks) THEN <<>>
    ELSE ranks[i] \o (IF i < Len(ranks) THEN <<"/">> ELSE <<>>) \o JoinRanks(ranks, i + 1)

Position(ranks) == JoinRanks(ranks, 1) \o <<" ", "w">> \o FenTail

\* Positions the check specification starts from.
LoneKings == Position(<<<<"k">>, <<>>, <<>>, <<>>, <<>>, <<>>, <<>>, <<"7", "K">>>>)
KingsSideBySide == Position(<<<<"6", "k", "K">>, <<>>, <<>>, <<>>, <<>>, <<>>, <<>>, <<>>>>)
QueenCheck == Position(<<<<>>, <<>>, <<>>, <<>>, <<>>, <<>>, <<>>, <<"K", "1", "q">>>>)
Stalemate == Position(<<<<>>, <<>>, <<>>, <<>>, <<>>, <<"1", "q">>, <<>>, <<"K">>>>)
QueenMate == Position(<<<<"1", "r">>, <<>>, <<>>, <<>>, <<>>, <<>>, <<"1", "q">>, <<"K">>>>)
PinnedPawn ==
    Position(<<<<>>, <<>>, <<>>, <<>>, <<>>, <<"2", "B">>, <<"p", "p">>, <<"k", "p", "K">>>>)
PinnedPawnGuards ==
    Position(<<<<>>, <<>>, <<>>, <<>>, <<>>, <<"2", "B">>, <<"p", "p", "1", "K">>, <<"k", "p">>>>)
PawnOrKingFirst ==
    Position(<<<<"7", "k">>, <<>>, <<>>, <<>>, <<>>, <<>>, <<"1", "p">>, <<"1", "p", "K">>>>)
LoneRook == Position(<<<<>>, <<>>, <<>>, <<"3", "R">>, <<>>, <<>>, <<>>, <<>>>>)
PawnsAndKnight ==
    Position(<<<<>>, <<"p", "1", "p">>, <<"1", "N">>, <<>>, <<>>, <<"n">>, <<"P", "P">>, <<"K">>>>)

Sliders ==
    Position(<<<<>>, <<>>, <<"2", "p">>, <<"3", "B", "2", "R">>, <<"2", "P", "1", "n">>,
               <<>>, <<"6", "q">>, <<>>>>)

PawnFiles ==
    Position(<<<<"4", "P">>, <<"p", "p", "p", "p", "p", "p", "p", "p">>,
               <<"N", "2", "p">>, <<"1", "n", "2", "P">>, <<"5", "p", "N">>, <<"7", "n">>,
               <<"P", "P", "P", "P", "P", "P", "P", "P">>, <<"5", "p">>>>)

CheckInputs ==
    {Sliders, PawnFiles, LoneKings, KingsSideBySide, QueenCheck, Stalemate, QueenMate, PinnedPawn,
     PinnedPawnGuards, PawnOrKingFirst, LoneRook, PawnsAndKnight}

\* The position the en-passant specification starts from, the moves its
\* apply_move calls draw from and the pawns it asks the moves of.
PassantInputs ==
    {Position(<<<<>>, <<"1", "p">>, <<>>, <<"p", "1", "P">>, <<"4", "P", "1", "p">>,
                <<"3", "N">>, <<"5", "P">>, <<>>>>)}

PassantMoves ==
    {<<Coordinate(1, 1), Coordinate(3, 1)>>, <<Coordinate(3, 1), Coordinate(4, 1)>>,
     <<Coordinate(6, 5), Coordinate(4, 5)>>, <<Coordinate(4, 5), Coordinate(3, 5)>>,
     <<Coordinate(5, 3), Coordinate(4, 5)>>}

PassantPawns == {Coordinate(3, 0), Coordinate(3, 2), Coordinate(4, 4), Coordinate(4, 6)}

Colors == {"White", "Black"}

\* ----------------------------------------------------------------- actions
Call(op, args, val) == [op |-> op, args |-> args, val |-> val]

Entry(op, args, val) == [op |-> op, args |-> args, val |-> val, pre |-> self]

Alive == panicked = None

\* board.load_fen(input), in either build profile.
DoLoadFen ==
    /\ Alive
    /\ \E checks \in BOOLEAN :
         LET r == LoadFen(self, input, checks) IN
         /\ self' = r.b
         /\ panicked' = r.panic
    /\ log' = Append(log, Entry("load_fen", <<input>>, None))
    /\ ret' = Call("load_fen", <<input>>, None)
    /\ UNCHANGED input

\* board = Board::default()
DoDefault ==
    /\ Alive
    /\ self' = Default
    /\ log' = Append(log, Entry("default", <<>>, None))
    /\ ret' = Call("default", <<>>, None)
    /\ UNCHANGED <<input, panicked>>

\* board.clear()
DoClear ==
    /\ Alive
    /\ self' = Clear(self)
    /\ log' = Append(log, Entry("clear", <<>>, None))
    /\ ret' = Call("clear", <<>>, None)
    /\ UNCHANGED <<input, panicked>>

\* board.get_fen()
DoGetFen ==
    /\ Alive
    /\ ret' = Call("get_fen", <<>>, GetFen(self))
    /\ UNCHANGED <<self, input, log, panicked>>

\* board.apply_move(starting, ending)
DoApplyMove(starting, ending) ==
    /\ Alive
    /\ LET r == ApplyMove(self, starting, ending) IN
       /\ self' = r.b
       /\ panicked' = r.panic
       /\ log' = Append(log, Entry("apply_move", <<starting, ending>>, r.captured))
       /\ ret' = Call("apply_move", <<starting, ending>>, r.captured)
    /\ UNCHANGED input

\* board.place_piece(piece, row, col)
DoPlacePiece(piece, row, col) ==
    /\ Alive
    /\ LET r == PlacePiece(self, piece, row, col) IN
       /\ self' = r.b
       /\ panicked' = r.panic
    /\ log' = Append(log, Entry("place_piece", <<piece, row, col>>, None))
    /\ ret' = Call("place_piece", <<piece, row, col>>, None)
    /\ UNCHANGED input

InitWith(inputs) ==
    /\ self = New
    /\ input \in inputs
    /\ log = <<>>
    /\ ret = Call("new", <<>>, None)
    /\ panicked = None

\* The codec: load the held text or build the default board, clear the
\* board, serialize.
Init == InitWith(CodecInputs)

Next ==
    \/ Len(log) < MaxLoads /\ DoLoadFen
    \/ Len(log) < MaxLoads /\ DoDefault
    \/ Len(log) <= MaxLoads /\ DoClear
    \/ DoGetFen

Spec == Init /\ [][Next]_vars

\* Moves: a board loaded from a held position, then apply_move and
\* place_piece calls on it.
InitMove ==
    /\ input \in MoveInputs
    /\ self = LoadFen(New, input, FALSE).b
    /\ log = <<>>
    /\ ret = Call("load_fen", <<input>>, None)
    /\ panicked = None

NextMove ==
    \/ \E starting \in MoveSquares, ending \in MoveSquares :
         Len(log) < MaxSteps /\ DoApplyMove(starting, ending)
    \/ \E piece \in PlacePieces, at \in PlaceSquares :
         Len(log) < MaxSteps /\ DoPlacePiece(piece, at.row, at.col)

SpecMove == InitMove /\ [][NextMove]_vars

\* A query returns or exhausts the stack.
Query(op, args, out) ==
    /\ ret' = Call(op, args, IF out.ov THEN <<>> ELSE out.val)
    /\ panicked' = IF out.ov THEN Some("stack overflow") ELSE None
    /\ UNCHANGED <<self, input, log>>

\* board.get_king_coord(color)
DoGetKingCoord(color) ==
    /\ Alive
    /\ \E found \in IF KingCoords(self, color) = {} THEN {None}
                    ELSE {Some(sq) : sq \in KingCoords(self, color)} :
         Query("get_king_coord", <<color>>, Returns(found))

\* board.get_moves(row, col)
DoGetMoves(row, col) ==
    /\ Alive
    /\ \E out \in GetMovesOut(self, row, col) :
         Query("get_moves", <<row, col>>, out)

\* board.is_in_check(color)
DoIsInCheck(color) ==
    /\ Alive
    /\ \E out \in IsInCheckOut(self, color) :
         Query("is_in_check", <<color>>, out)

\* board.is_in_checkmate(color)
DoIsInCheckmate(color) ==
    /\ Alive
    /\ \E out \in IsInCheckmateOut(self, color) :
         Query("is_in_checkmate", <<color>>, out)

\* Check queries on a board loaded from a held position.
InitCheck ==
    /\ input \in CheckInputs
    /\ self = LoadFen(New, input, FALSE).b
    /\ log = <<>>
    /\ ret = Call("load_fen", <<input>>, None)
    /\ panicked = None

\* The squares get_moves is asked for: the occupied ones and the corners.
CheckSquares(b) ==
    {sq \in {Coordinate(row, col) : row \in Idx, col \in Idx} :
        \/ b.board[sq.row][sq.col].breed # "Empty"
        \/ sq.row \in {0, BoardSize - 1} /\ sq.col \in {0, BoardSize - 1}}

NextCheck ==
    \/ \E color \in Colors : DoGetKingCoord(color)
    \/ \E sq \in CheckSquares(self) : DoGetMoves(sq.row, sq.col)
    \/ \E color \in Colors : DoIsInCheck(color)
    \/ \E color \in Colors : DoIsInCheckmate(color)

SpecCheck == InitCheck /\ [][NextCheck]_vars

\* En passant: moves on a loaded position, then get_moves of a pawn.
InitPassant ==
    /\ input \in PassantInputs
    /\ self = LoadFen(New, input, FALSE).b
    /\ log = <<>>
    /\ ret = Call("load_fen", <<input>>, None)
    /\ panicked = None

NextPassant ==
    \/ \E move \in PassantMoves : Len(log) < MaxSteps /\ DoApplyMove(move[1], move[2])
    \/ \E pawn \in PassantPawns : DoGetMoves(pawn.row, pawn.col)

SpecPassant == InitPassant /\ [][NextPassant]_vars

\* ================================================================== claims
LastEntry == log[Len(log)]

Squares == {Coordinate(r, c) : r \in Idx, c \in Idx}

CellAt(b, coord) == b.board[coord.row][coord.col]

\* One colour's map holds exactly the non-Empty cells of that colour.
MapMatchesGrid(b, m, color) ==
    /\ DOMAIN m \subseteq Squares
    /\ \A sq \in Squares :
         (sq \in DOMAIN m) <=> (CellAt(b, sq).breed # "Empty" /\ CellAt(b, sq).color = color)
    /\ \A sq \in DOMAIN m : m[sq] = CellAt(b, sq)

\* The index invariant of the data model.
IndexInvariant(b) ==
    /\ MapMatchesGrid(b, b.white_pieces, "White")
    /\ MapMatchesGrid(b, b.black_pieces, "Black")

\* The fields of the held text, and what the notation says about them.
InputFields == Split(input)
SixFields == Len(InputFields) = 6
InputBoard == InputFields[1]
ValidTurn == InputFields[2] \in {<<"w">>, <<"b">>}

IsSeparator(ch) == ch = "/"
IsOccupant(ch) == ~IsSeparator(ch) /\ ~IsDigit(ch)
Width(ch) == IF IsDigit(ch) THEN ToDigit(ch) ELSE 1

RECURSIVE SumWidths(_, _, _)
SumWidths(field, from, to) ==
    IF from > to THEN 0 ELSE Width(field[from]) + SumWidths(field, from + 1, to)

\* The rank a character of a board field stands on: the separators before it.
RankOf(field, i) == Cardinality({k \in 1 .. (i - 1) : IsSeparator(field[k])})

\* The file it stands on: the widths of the characters since the last separator.
FileOf(field, i) ==
    LET seps == {k \in 1 .. (i - 1) : IsSeparator(field[k])}
        start == IF seps = {} THEN 1 ELSE (CHOOSE k \in seps : \A j \in seps : j <= k) + 1
    IN  SumWidths(field, start, i - 1)

\* The field puts a letter or placeholder outside the 8x8 board.
PlacesOffBoard(field) ==
    \E i \in 1 .. Len(field) :
        IsOccupant(field[i]) /\ ~OnBoard(RankOf(field, i), FileOf(field, i))

\* The occupant a board field describes on a square.
Described(field, sq) ==
    LET at == {i \in 1 .. Len(field) :
                  IsOccupant(field[i]) /\ RankOf(field, i) = sq.row
                  /\ FileOf(field, i) = sq.col}
    IN  IF at = {} THEN EmptyPiece ELSE PieceOfChar(field[CHOOSE i \in at : TRUE])

RecognizedChars ==
    {"1", "2", "3", "4", "5", "6", "7", "8", "/",
     "K", "Q", "R", "B", "N", "P", "k", "q", "r", "b", "n", "p"}

Recognized(field) == \A i \in 1 .. Len(field) : field[i] \in RecognizedChars

Loaded == log # <<>> /\ LastEntry.op = "load_fen"

\* C1. Serializing the board built by Board::default() yields the canonical
\* starting text, with all four castling letters.
C1_DefaultSerializesToStart ==
    (log # <<>> /\ LastEntry.op = "default" /\ ret.op = "get_fen") => ret.val = StartFen

\* C6. After load_fen accepts a text, a coordinate has an entry in a colour's
\* map if and only if the grid cell there is non-Empty and of that colour.
C6_IndexInvariantAfterLoad ==
    (Loaded /\ Alive) => IndexInvariant(self)

\* C7. (as claimed) load_fen of a six-field text whose turn field is "w" or
\* "b" never fails, whatever the board field holds.
C7_OnlyTurnIsFatal ==
    (Loaded /\ SixFields /\ ValidTurn) => Alive

\* C7. (as amended) load_fen of a six-field text fails exactly when the turn
\* field is neither "w" nor "b" ("invalid turn") or, with a valid turn, the
\* board field puts a letter or placeholder on a rank or file beyond 7
\* ("invalid Coordinates").
C7_FatalExactly ==
    (Loaded /\ SixFields) =>
        /\ ~ValidTurn => panicked = Some("invalid turn")
        /\ (ValidTurn /\ PlacesOffBoard(InputBoard)) => panicked = Some("invalid Coordinates")
        /\ (ValidTurn /\ ~PlacesOffBoard(InputBoard)) => Alive

C7_Witness ==
    /\ Loaded /\ SixFields /\ ValidTurn
    /\ panicked = Some("invalid Coordinates")
    /\ \E i \in 1 .. Len(InputBoard) : InputBoard[i] = "9"

\* C9. (as claimed) for every text with a recognized board field and a valid
\* turn, load_fen then get_fen completes and the output's board field
\* describes the same occupant on each square as the input's.
C9_RoundTrip ==
    (Loaded /\ SixFields /\ ValidTurn /\ Recognized(InputBoard)) =>
        /\ Alive
        /\ ret.op = "get_fen" =>
             \A sq \in Squares : Described(Split(ret.val)[1], sq) = Described(InputBoard, sq)

\* The row and col counters of load_fen stay within the i8 range all along
\* the field.
WithinI8(field) ==
    \A i \in 1 .. (Len(field) + 1) : RankOf(field, i) <= I8Max /\ FileOf(field, i) <= I8Max

\* C9. (as amended) the same, for board fields that keep the row and col
\* counters within the i8 range and put no letter on a rank or file beyond 7.
C9_RoundTripOnBoard ==
    (Loaded /\ SixFields /\ ValidTurn /\ Recognized(InputBoard)
     /\ WithinI8(InputBoard) /\ ~PlacesOffBoard(InputBoard)) =>
        /\ Alive
        /\ ret.op = "get_fen" =>
             /\ Recognized(Split(ret.val)[1])
             /\ \A sq \in Squares :
                  Described(Split(ret.val)[1], sq) = Described(InputBoard, sq)

C9_Witness ==
    /\ Loaded /\ ValidTurn /\ Recognized(InputBoard) /\ ret.op = "get_fen"
    /\ Described(InputBoard, Coordinate(7, 2)) = Piece("King", "White")
    /\ Described(InputBoard, Coordinate(7, 0)) = Piece("Pawn", "Black")
    /\ Split(ret.val)[1] # InputBoard

\* ------------------------------------------------------------- move claims
Occupied(b, sq) == CellAt(b, sq).breed # "Empty"

\* The last call was apply_move(from, to) between two distinct squares, the
\* first of them occupied, on a board whose maps matched its grid.
MovedFromOccupied ==
    /\ log # <<>> /\ LastEntry.op = "apply_move" /\ Alive
    /\ LastEntry.args[1] # LastEntry.args[2]
    /\ Occupied(LastEntry.pre, LastEntry.args[1])
    /\ IndexInvariant(LastEntry.pre)

\* C5. apply_move between distinct on-board squares, from an occupied square,
\* keeps the index invariant, whatever stands on the destination.
C5_IndexInvariantUnderMoves == MovedFromOccupied => IndexInvariant(self)

C5_Witness ==
    /\ MovedFromOccupied
    /\ Occupied(LastEntry.pre, LastEntry.args[2])
    /\ CellAt(LastEntry.pre, LastEntry.args[2]).color
         = CellAt(LastEntry.pre, LastEntry.args[1]).color
    /\ IndexInvariant(self)

\* Everything of a board but turn-to-move and the en-passant marker.
SamePosition(b1, b2) ==
    /\ b1.board = b2.board
    /\ b1.white_pieces = b2.white_pieces
    /\ b1.black_pieces = b2.black_pieces
    /\ b1.castling_white_king_side = b2.castling_white_king_side
    /\ b1.castling_white_queen_side = b2.castling_white_queen_side
    /\ b1.castling_black_king_side = b2.castling_black_king_side
    /\ b1.castling_black_queen_side = b2.castling_black_queen_side
    /\ b1.halfmove_clock = b2.halfmove_clock
    /\ b1.fullmove_number = b2.fullmove_number

\* Entry k of the log is apply_move(from, to) from an occupied square of a
\* board satisfying the index invariant, and entry k + 1 is apply_move(to, from).
MoveThenBack(k) ==
    /\ log[k].op = "apply_move" /\ log[k + 1].op = "apply_move"
    /\ log[k + 1].args = <<log[k].args[2], log[k].args[1]>>
    /\ Occupied(log[k].pre, log[k].args[1])
    /\ IndexInvariant(log[k].pre)

\* The log ends with a move, its reverse and, after a capture, the
\* re-placement of the captured piece on the destination.
UndoneAt(k) ==
    /\ MoveThenBack(k)
    /\ \/ log[k].val = None /\ Len(log) = k + 1
       \/ /\ log[k].val # None /\ Len(log) = k + 2
          /\ log[k + 2].op = "place_piece"
          /\ log[k + 2].args = <<log[k].val[1], log[k].args[2].row, log[k].args[2].col>>

\* C8. A move, the reverse move and the re-placement of a captured piece
\* restore the grid and both maps, and leave flags and counters alone.
C8_MoveUndoRoundTrip ==
    \A k \in 1 .. (Len(log) - 1) : (Alive /\ UndoneAt(k)) => SamePosition(self, log[k].pre)

C8_Witness ==
    \E k \in 1 .. (Len(log) - 1) :
        /\ Alive /\ UndoneAt(k) /\ log[k].val # None
        /\ log[k].val[1].color = CellAt(log[k].pre, log[k].args[1]).color
        /\ log[k].args[1] # log[k].args[2]
        /\ SamePosition(self, log[k].pre)

\* ------------------------------------------------------------ frame of moves
\* The log holds apply_move calls only, all of which returned.
OnlyMoves == log # <<>> /\ Alive /\ \A k \in 1 .. Len(log) : log[k].op = "apply_move"

\* The board call k of the log left behind.
PostOf(k) == IF k = Len(log) THEN self ELSE log[k + 1].pre

\* Call k moved a Pawn across exactly two rows.
DoubleStep(k) ==
    LET from == log[k].args[1]
        to == log[k].args[2]
    IN  /\ CellAt(log[k].pre, from).breed = "Pawn"
        /\ (to.row - from.row = 2 \/ from.row - to.row = 2)

\* The destination of the most recent double step among the first k calls.
RECURSIVE LastDoubleStep(_)
LastDoubleStep(k) ==
    IF k = 0 THEN None
    ELSE IF DoubleStep(k) THEN Some(log[k].args[2])
    ELSE LastDoubleStep(k - 1)

SameRights(b1, b2) ==
    /\ b1.castling_white_king_side = b2.castling_white_king_side
    /\ b1.castling_white_queen_side = b2.castling_white_queen_side
    /\ b1.castling_black_king_side = b2.castling_black_king_side
    /\ b1.castling_black_queen_side = b2.castling_black_queen_side
    /\ b1.halfmove_clock = b2.halfmove_clock
    /\ b1.fullmove_number = b2.fullmove_number

\* C11. After apply_move calls on a loaded board the castling flags and both
\* counters are those of the load, the en-passant marker is the destination
\* of the most recent Pawn move across two rows (None without one), every
\* other call leaves the marker alone, and every call flips turn-to-move.
C11_MoveFrame ==
    OnlyMoves =>
        /\ SameRights(self, log[1].pre)
        /\ self.last_2_moves_pawn = LastDoubleStep(Len(log))
        /\ \A k \in 1 .. Len(log) :
              /\ PostOf(k).turn = Opposite(log[k].pre.turn)
              /\ ~DoubleStep(k) => PostOf(k).last_2_moves_pawn = log[k].pre.last_2_moves_pawn

\* A Pawn's double step, then a move that is none, and the marker still
\* names the double step's destination.
C11_Witness ==
    /\ OnlyMoves /\ Len(log) >= 2
    /\ DoubleStep(Len(log) - 1) /\ ~DoubleStep(Len(log))
    /\ Occupied(LastEntry.pre, LastEntry.args[1])
    /\ self.last_2_moves_pawn = Some(log[Len(log) - 1].args[2])


\* ------------------------------------------------------------ check claims
\* Some piece of the other colour has king_coord among its post-processed
\* pseudo-legal destinations.
RawAttack(b, color, king_coord) ==
    \E sq \in DOMAIN PiecesOf(b, Opposite(color)) :
        Contains(Candidates(b, sq.row, sq.col), king_coord)

\* Colour has a king in its index and a king of it is under raw attack.
RawCheck(b, color) ==
    \E king_coord \in KingCoords(b, color) : RawAttack(b, color, king_coord)

Returned(op) == ret.op = op /\ Alive

\* C2. is_in_check(c) that returns gives false without a king of c, and
\* otherwise true exactly when the king's square is a pseudo-legal
\* destination of some piece of the other colour, pinned or not.
C2_CheckIsRawAttack ==
    Returned("is_in_check") =>
        LET color == ret.args[1] IN
        IF KingCoords(self, color) = {} THEN ret.val = FALSE
        ELSE \E king_coord \in KingCoords(self, color) :
                ret.val = RawAttack(self, color, king_coord)

\* C3. get_moves, is_in_check and is_in_checkmate return on every board:
\* the nesting of get_moves frames stays within the stack.
C3_QueriesReturn ==
    ret.op \in {"get_moves", "is_in_check", "is_in_checkmate"} => Alive

\* C4. get_moves on an occupied square that returns lists a destination
\* exactly when it is a post-processed pseudo-legal destination and the
\* mover's colour is not under raw attack once the piece stands there.
C4_LegalMovesExact ==
    (Returned("get_moves") /\ Occupied(self, Coordinate(ret.args[1], ret.args[2]))) =>
        LET from == Coordinate(ret.args[1], ret.args[2])
            color == CellAt(self, from).color
        IN  \A to \in Squares :
                Contains(ret.val, to)
                <=> /\ Contains(Candidates(self, from.row, from.col), to)
                    /\ ~RawCheck(ApplyMove(self, from, to).b, color)

\* Some run of get_moves on the piece at sq returns the empty list.
MayReturnEmpty(b, sq) == Returns(<<>>) \in GetMovesOut(b, sq.row, sq.col)

\* Some run of get_moves on the piece at sq returns a non-empty list.
MayReturnMoves(b, sq) ==
    \E out \in GetMovesOut(b, sq.row, sq.col) : ~out.ov /\ out.val # <<>>

\* C10. is_in_checkmate(c) returns: false when c has no king, and with a
\* king true exactly when every piece in c's index gets an empty list from
\* get_moves, whether or not the king is attacked.
C10_CheckmateIsNoMoves ==
    ret.op = "is_in_checkmate" =>
        LET color == ret.args[1]
            pieces == DOMAIN PiecesOf(self, color)
        IN  /\ Alive
            /\ IF KingCoords(self, color) = {} THEN ret.val = FALSE
               ELSE /\ ret.val = TRUE => \A sq \in pieces : MayReturnEmpty(self, sq)
                    /\ ret.val = FALSE => \E sq \in pieces : MayReturnMoves(self, sq)

\* ---------------------------------------------------------------- ray claims
Step(from, dir, n) == Coordinate(from.row + n * dir[1], from.col + n * dir[2])

\* The squares a walk from `from` in direction dir reaches for a piece of
\* the colour: the Empty squares before the first occupant, and the first
\* occupant's square when it holds a piece of the other colour.
Walk(b, from, dir, color) ==
    {to \in Squares :
        \E n \in 1 .. (BoardSize - 1) :
            /\ to = Step(from, dir, n)
            /\ \A m \in 1 .. (n - 1) : CellAt(b, Step(from, dir, m)).breed = "Empty"
            /\ CellAt(b, to).breed = "Empty" \/ CellAt(b, to).color # color}

Orthogonal == {<<1, 0>>, <<-1, 0>>, <<0, 1>>, <<0, -1>>}
Diagonal == {<<1, 1>>, <<1, -1>>, <<-1, 1>>, <<-1, -1>>}

DirectionsOf(breed) ==
    CASE breed = "Rook" -> Orthogonal
      [] breed = "Bishop" -> Diagonal
      [] breed = "Queen" -> Orthogonal \cup Diagonal
      [] OTHER -> {}

NoKingOnGrid(b, color) == \A sq \in Squares : CellAt(b, sq) # Piece("King", color)

Elements(seq) == {seq[i] : i \in 1 .. Len(seq)}

\* get_moves returned for a Rook, Bishop or Queen whose colour has no king.
SliderMoved ==
    /\ Returned("get_moves")
    /\ CellAt(self, Coordinate(ret.args[1], ret.args[2])).breed \in {"Rook", "Bishop", "Queen"}
    /\ NoKingOnGrid(self, CellAt(self, Coordinate(ret.args[1], ret.args[2])).color)

\* C12. Without a king of the mover's colour, get_moves of a Rook, Bishop or
\* Queen returns, once each, exactly the squares its walks reach; the lone
\* Rook on (3,3) has 14 destinations.
C12_SlidersWalkRays ==
    SliderMoved =>
        LET from == Coordinate(ret.args[1], ret.args[2])
            piece == CellAt(self, from)
        IN  /\ Elements(ret.val)
                 = UNION {Walk(self, from, dir, piece.color) : dir \in DirectionsOf(piece.breed)}
            /\ Cardinality(Elements(ret.val)) = Len(ret.val)
            /\ (input = LoneRook /\ from = Coordinate(3, 3)) => Len(ret.val) = 14

\* A slider with a capture on one ray and a friendly piece closing another.
C12_Witness ==
    /\ SliderMoved
    /\ LET from == Coordinate(ret.args[1], ret.args[2])
           piece == CellAt(self, from)
       IN  /\ \E to \in Elements(ret.val) : Occupied(self, to)
           /\ \E dir \in DirectionsOf(piece.breed) :
                 /\ OnBoard(Step(from, dir, 1).row, Step(from, dir, 1).col)
                 /\ Occupied(self, Step(from, dir, 1))
                 /\ CellAt(self, Step(from, dir, 1)).color = piece.color
           /\ \E dir \in DirectionsOf(piece.breed) : Cardinality(Walk(self, from, dir, piece.color)) >= 3

\* --------------------------------------------------------------- pawn claims
Forward(color) == IF color = "White" THEN -1 ELSE 1

HomeRow(color) == IF color = "White" THEN 6 ELSE 1

Count(seq, x) == Cardinality({i \in 1 .. Len(seq) : seq[i] = x})

IsEmptyAt(b, coord) == OnBoard(coord.row, coord.col) /\ CellAt(b, coord).breed = "Empty"

\* get_moves returned for a Pawn and the king-safety filter removed nothing.
PawnMoved ==
    /\ Returned("get_moves")
    /\ CellAt(self, Coordinate(ret.args[1], ret.args[2])).breed = "Pawn"
    /\ ret.val = Candidates(self, ret.args[1], ret.args[2])

\* C13. A Pawn's forward destinations: the square ahead if and only if it is
\* on the board and Empty; the second square ahead if and only if the Pawn is
\* on its home row and both squares are Empty; none when the square ahead is
\* occupied; and each at most once.
C13_PawnForward ==
    PawnMoved =>
        LET from == Coordinate(ret.args[1], ret.args[2])
            color == CellAt(self, from).color
            one == Coordinate(from.row + Forward(color), from.col)
            two == Coordinate(from.row + 2 * Forward(color), from.col)
        IN  /\ Contains(ret.val, one) <=> IsEmptyAt(self, one)
            /\ Contains(ret.val, two)
                 <=> (from.row = HomeRow(color) /\ IsEmptyAt(self, one) /\ IsEmptyAt(self, two))
            /\ ~IsEmptyAt(self, one)
                 => \A to \in Elements(ret.val) : to.col # from.col
            /\ \A to \in Elements(ret.val) :
                 to.col = from.col => to \in {one, two} /\ Count(ret.val, to) = 1

\* A Pawn on its home row with both forward squares among its destinations.
C13_Witness ==
    /\ PawnMoved
    /\ LET from == Coordinate(ret.args[1], ret.args[2])
           color == CellAt(self, from).color
       IN  /\ from.row = HomeRow(color)
           /\ Count(ret.val, Coordinate(from.row + Forward(color), from.col)) = 1
           /\ Count(ret.val, Coordinate(from.row + 2 * Forward(color), from.col)) = 1

\* --------------------------------------------------------- en-passant claims
\* get_moves returned for a Pawn.
PawnAsked ==
    Returned("get_moves") /\ CellAt(self, Coordinate(ret.args[1], ret.args[2])).breed = "Pawn"

\* The en-passant marker names the square beside (row, col) on the given side.
MarkerBeside(b, row, col, side) == b.last_2_moves_pawn = Some(Coordinate(row, col + side))

\* The square one row ahead of the mover on the neighbouring file.
AheadBeside(row, col, color, side) == Coordinate(row + Forward(color), col + side)

\* The ordinary diagonal capture towards that side applies.
DiagonalCapture(b, row, col, color, side) ==
    LET to == AheadBeside(row, col, color, side)
    IN  OnBoard(to.row, to.col) /\ Occupied(b, to) /\ CellAt(b, to).color # color

\* The marker square holds a Pawn of the other colour.
OpposingPawnBeside(b, row, col, color, side) ==
    /\ OnBoard(row, col + side)
    /\ CellAt(b, Coordinate(row, col + side)) = Piece("Pawn", Opposite(color))

\* C14 as stated. A Pawn beside the marker square has the square ahead on the
\* marker's file among its raw candidates whatever stands on the marker
\* square; with the marker unset or elsewhere there is no such candidate
\* but an ordinary diagonal capture.
C14_EnPassantAnyOccupant ==
    PawnAsked =>
        LET row == ret.args[1]
            col == ret.args[2]
            color == CellAt(self, Coordinate(row, col)).color
            raw == RawMoves(self, row, col)
        IN  \A side \in {-1, 1} :
                IF MarkerBeside(self, row, col, side)
                THEN Contains(raw, AheadBeside(row, col, color, side))
                ELSE Contains(raw, AheadBeside(row, col, color, side))
                        => DiagonalCapture(self, row, col, color, side)

\* C14, amended. The candidate is generated exactly when the marker names the
\* neighbouring square and a Pawn of the other colour stands on it.
C14_EnPassantOpposingPawn ==
    PawnAsked =>
        LET row == ret.args[1]
            col == ret.args[2]
            color == CellAt(self, Coordinate(row, col)).color
            raw == RawMoves(self, row, col)
        IN  \A side \in {-1, 1} :
                IF /\ MarkerBeside(self, row, col, side)
                   /\ OpposingPawnBeside(self, row, col, color, side)
                THEN Contains(raw, AheadBeside(row, col, color, side))
                ELSE Contains(raw, AheadBeside(row, col, color, side))
                        => DiagonalCapture(self, row, col, color, side)

\* A Pawn beside the Pawn that just made a double step: the square behind
\* that Pawn is Empty and is among the returned moves.
C14_Witness ==
    /\ PawnAsked
    /\ \E side \in {-1, 1} :
          LET row == ret.args[1]
              col == ret.args[2]
              color == CellAt(self, Coordinate(row, col)).color
          IN  /\ MarkerBeside(self, row, col, side)
              /\ OpposingPawnBeside(self, row, col, color, side)
              /\ ~Occupied(self, AheadBeside(row, col, color, side))
              /\ Contains(ret.val, AheadBeside(row, col, color, side))

====
